---- MODULE Spec2Model ----
(***************************************************************************)
(* siobrultech_protocols.gem: the scoped API transaction of api.py         *)
(* (call_api, ApiCall, get_serial_number) run by cooperative tasks on one  *)
(* shared transport, and the packet validation of packets.py               *)
(* (PacketFormat.size, PacketFormat.parse, _checksum).                     *)
(***************************************************************************)
EXTENDS Integers, Sequences, FiniteSets, TLC

VARIABLES
    pc,          \* per task: where the task stands in its call_api transaction
    caller,      \* per task: which caller runs the scoped block
    log,         \* per task: the events of its transaction, in order
    delay,       \* per task: the delay (ms) the transport returned, while suspended
    sleeping,    \* per task: the duration (ms) handed to asyncio.sleep, while suspended
    outcome,     \* per task: what left the "async with" statement
    result,      \* per task: the last value the sender returned
    lastSender,  \* the task that made the latest send_api_request on the transport
    overlap,     \* history of the interleavings seen on the shared transport
    format,      \* parse: the PacketFormat in use
    packet,      \* parse: the buffer handed to parse
    parsed       \* parse: what parse did with it

apiVars == <<pc, caller, log, delay, sleeping, outcome, result, lastSender, overlap>>
parseVars == <<format, packet, parsed>>
vars == <<pc, caller, log, delay, sleeping, outcome, result, lastSender, overlap,
          format, packet, parsed>>

-----------------------------------------------------------------------------
(* Bounds and input sets *)

\* The tasks that run a transaction on the one transport instance.
Tasks == {"A", "B"}

\* How many times a caller may invoke the yielded sender inside one block.
MaxCalls == 2

\* The delays a transport may return, in milliseconds: half a second, one
\* second, one and a half, and one day and one second.
DelayValues == {500, 1000, 1500, 86401000}

\* Response texts the transport may hand back, as character sequences.
Responses == {<<"1", "2", "3", "4", "5", "6">>, <<"a", "b", "c">>, <<>>}

Callers == {"get_serial_number", "generic"}

-----------------------------------------------------------------------------
(* Pure helpers of api.py *)

\* timedelta.seconds: the seconds component of the normalised
\* (days, seconds, microseconds) triple of a non-negative duration.
timedelta_seconds(ms) == (ms \div 1000) % 86400

\* asyncio.sleep(delay.seconds): the duration actually slept, in milliseconds.
sleep_duration(ms) == timedelta_seconds(ms) * 1000

Digits == {"0", "1", "2", "3", "4", "5", "6", "7", "8", "9"}

DigitValue(c) ==
    CASE c = "0" -> 0 [] c = "1" -> 1 [] c = "2" -> 2 [] c = "3" -> 3
      [] c = "4" -> 4 [] c = "5" -> 5 [] c = "6" -> 6 [] c = "7" -> 7
      [] c = "8" -> 8 [] c = "9" -> 9

RECURSIVE DecimalValue(_)
DecimalValue(text) ==
    IF text = <<>> THEN 0
    ELSE DecimalValue(SubSeq(text, 1, Len(text) - 1)) * 10
         + DigitValue(text[Len(text)])

\* GET_SERIAL_NUMBER's parser, int(response), on the texts of Responses: a
\* text of decimal digits gives its value, an empty or non-numeric one raises
\* ValueError.
parse_response(text) ==
    IF text # <<>> /\ \A i \in 1..Len(text) : text[i] \in Digits
    THEN [raises |-> "none", value |-> DecimalValue(text)]
    ELSE [raises |-> "ValueError", value |-> -1]

\* What may be raised inside a transaction, by where it is raised.
Faults == {"CancelledError", "BlockError", "FormatError", "SendError",
           "ReceiveError", "ValueError"}

Count(lg, ev) == Cardinality({i \in 1..Len(lg) : lg[i] = ev})

-----------------------------------------------------------------------------
(* call_api *)

ApiInit ==
    /\ pc = [t \in Tasks |-> "idle"]
    /\ caller \in [Tasks -> Callers]
    /\ log = [t \in Tasks |-> <<>>]
    /\ delay = [t \in Tasks |-> 0]
    /\ sleeping = [t \in Tasks |-> 0]
    /\ outcome = [t \in Tasks |-> "pending"]
    /\ result = [t \in Tasks |-> -1]
    /\ lastSender = "none"
    /\ overlap = [both |-> FALSE, endInside |-> FALSE, crossReceive |-> FALSE]

\* call_api without try/finally: end_api_request() written after the yield,
\* reached on a normal exit only.
call_api_finally_no_try(lg, exc) ==
    [log |-> IF exc = "none" THEN Append(lg, "end") ELSE lg, propagates |-> exc]

\* call_api cleaning up in "except Exception" in place of finally:
\* CancelledError is a BaseException and passes it by.
call_api_finally_except_exception(lg, exc) ==
    [log |-> IF exc = "CancelledError" THEN lg ELSE Append(lg, "end"),
     propagates |-> exc]

\* The finally clause of call_api: protocol.end_api_request(), after which the
\* exception that entered it (if any) continues to the caller.
call_api_finally(lg, exc) == [log |-> Append(lg, "end"), propagates |-> exc]

\* Leaving the "async with" block with the log lg, normally (exc = "none") or
\* with exc raised at the generator's suspension point.
ExitScope(t, lg, exc) ==
    LET raised == IF exc = "none" THEN lg ELSE Append(lg, exc)
        fin == call_api_finally(raised, exc)
    IN  /\ pc' = [pc EXCEPT ![t] = "done"]
        /\ log' = [log EXCEPT ![t] = fin.log]
        /\ outcome' = [outcome EXCEPT ![t] = IF fin.propagates = "none" THEN "returned"
                                            ELSE fin.propagates]
        /\ delay' = [delay EXCEPT ![t] = 0]
        /\ sleeping' = [sleeping EXCEPT ![t] = 0]
        /\ UNCHANGED caller

\* call_api holding a lock: a transaction begins only when no other is in flight.
call_api_begin_locked(t) ==
    /\ pc[t] = "idle"
    /\ \A u \in Tasks \ {t} : pc[u] \in {"idle", "done"}
    /\ \E d \in DelayValues :
        /\ delay' = [delay EXCEPT ![t] = d]
        /\ sleeping' = [sleeping EXCEPT ![t] = sleep_duration(d)]
    /\ pc' = [pc EXCEPT ![t] = "begin_sleep"]
    /\ log' = [log EXCEPT ![t] = Append(@, "begin")]
    /\ UNCHANGED <<caller, outcome, result>>

\* delay = protocol.begin_api_request() returns d; await asyncio.sleep(delay.seconds)
call_api_begin(t) ==
    /\ pc[t] = "idle"
    /\ \E d \in DelayValues :
        /\ delay' = [delay EXCEPT ![t] = d]
        /\ sleeping' = [sleeping EXCEPT ![t] = sleep_duration(d)]
    /\ pc' = [pc EXCEPT ![t] = "begin_sleep"]
    /\ log' = [log EXCEPT ![t] = Append(@, "begin")]
    /\ UNCHANGED <<caller, outcome, result>>

\* begin_api_request() called inside the try statement: its fault runs the
\* finally clause.
call_api_begin_raises_in_try(t) ==
    /\ pc[t] = "idle"
    /\ pc' = [pc EXCEPT ![t] = "done"]
    /\ log' = [log EXCEPT ![t] = <<"begin_raised", "end">>]
    /\ outcome' = [outcome EXCEPT ![t] = "BeginError"]
    /\ UNCHANGED <<caller, delay, sleeping, result>>

\* protocol.begin_api_request() raises: the call stands before the try statement.
call_api_begin_raises(t) ==
    /\ pc[t] = "idle"
    /\ pc' = [pc EXCEPT ![t] = "done"]
    /\ log' = [log EXCEPT ![t] = Append(@, "begin_raised")]
    /\ outcome' = [outcome EXCEPT ![t] = "BeginError"]
    /\ UNCHANGED <<caller, delay, sleeping, result>>

\* The post-begin sleep completes; yield send.
call_api_yield(t) ==
    /\ pc[t] = "begin_sleep"
    /\ pc' = [pc EXCEPT ![t] = "block"]
    /\ log' = [log EXCEPT ![t] = @ \o <<"wake", "yield">>]
    /\ delay' = [delay EXCEPT ![t] = 0]
    /\ sleeping' = [sleeping EXCEPT ![t] = 0]
    /\ UNCHANGED <<caller, outcome, result>>

\* The task is cancelled while suspended in the post-begin sleep.
cancel_post_begin(t) ==
    /\ pc[t] = "begin_sleep"
    /\ ExitScope(t, log[t], "CancelledError")
    /\ UNCHANGED result

\* The sender raised exc inside the block, the log so far being lg: a generic
\* caller may catch it and stay in the block; otherwise it leaves the block.
SenderRaised(t, lg, exc) ==
    /\ \/ /\ caller[t] = "generic"
          /\ pc' = [pc EXCEPT ![t] = "block"]
          /\ log' = [log EXCEPT ![t] = lg \o <<exc, "caught">>]
          /\ delay' = [delay EXCEPT ![t] = 0]
          /\ sleeping' = [sleeping EXCEPT ![t] = 0]
          /\ UNCHANGED <<caller, outcome>>
       \/ ExitScope(t, lg, exc)
    /\ UNCHANGED result

\* Whether the caller of task t may invoke the sender now.
MayCall(t) ==
    /\ pc[t] = "block"
    /\ Count(log[t], "call") < MaxCalls
    /\ caller[t] = "get_serial_number" => Count(log[t], "call") = 0

\* send without the await between the two halves: the response is read right
\* after the request is written.
send_request_no_sleep(t) ==
    /\ MayCall(t)
    /\ log' = [log EXCEPT ![t] = @ \o <<"call", "send", "receive", "return">>]
    /\ UNCHANGED <<pc, caller, delay, sleeping, outcome, result>>

\* send_request writing the request twice (a retry inside one invocation).
send_request_twice(t) ==
    /\ MayCall(t)
    /\ \E d \in DelayValues :
        /\ delay' = [delay EXCEPT ![t] = d]
        /\ sleeping' = [sleeping EXCEPT ![t] = sleep_duration(d)]
    /\ pc' = [pc EXCEPT ![t] = "send_sleep"]
    /\ log' = [log EXCEPT ![t] = @ \o <<"call", "send", "send">>]
    /\ UNCHANGED <<caller, outcome, result>>

\* send, first half: delay = api.send_request(protocol, arg) returns d;
\* await asyncio.sleep(delay.seconds)
send_request(t) ==
    /\ MayCall(t)
    /\ \E d \in DelayValues :
        /\ delay' = [delay EXCEPT ![t] = d]
        /\ sleeping' = [sleeping EXCEPT ![t] = sleep_duration(d)]
    /\ pc' = [pc EXCEPT ![t] = "send_sleep"]
    /\ log' = [log EXCEPT ![t] = @ \o <<"call", "send">>]
    /\ UNCHANGED <<caller, outcome, result>>

\* api.send_request: self._format_request(arg) raises, before anything is sent.
\* GET_SERIAL_NUMBER's formatter is a constant and cannot raise.
send_request_format_raises(t) ==
    /\ MayCall(t)
    /\ caller[t] = "generic"
    /\ SenderRaised(t, Append(log[t], "call"), "FormatError")

\* api.send_request: protocol.send_api_request(...) raises.
send_request_raises(t) ==
    /\ MayCall(t)
    /\ SenderRaised(t, log[t] \o <<"call", "send_raised">>, "SendError")

\* send, second half: the post-send sleep completes;
\* return api.receive_response(protocol), the transport handing back text.
receive_response(t) ==
    /\ pc[t] = "send_sleep"
    /\ \E text \in Responses :
        LET r == parse_response(text)
            lg == log[t] \o <<"wake", "receive">>
        IN  IF r.raises = "none"
            THEN /\ pc' = [pc EXCEPT ![t] = "block"]
                 /\ log' = [log EXCEPT ![t] = Append(lg, "return")]
                 /\ result' = [result EXCEPT ![t] = r.value]
                 /\ delay' = [delay EXCEPT ![t] = 0]
                 /\ sleeping' = [sleeping EXCEPT ![t] = 0]
                 /\ UNCHANGED <<caller, outcome>>
            ELSE SenderRaised(t, lg, r.raises)

\* api.receive_response: protocol.receive_api_response() raises.
receive_response_raises(t) ==
    /\ pc[t] = "send_sleep"
    /\ SenderRaised(t, log[t] \o <<"wake", "receive_raised">>, "ReceiveError")

\* The task is cancelled while suspended in the sender's post-send sleep.
cancel_post_send(t) ==
    /\ pc[t] = "send_sleep"
    /\ ExitScope(t, log[t], "CancelledError")
    /\ UNCHANGED result

\* The scoped block ends normally. get_serial_number returns what its one
\* sender invocation returned.
block_exit(t) ==
    /\ pc[t] = "block"
    /\ caller[t] = "get_serial_number" => log[t][Len(log[t])] = "return"
    /\ ExitScope(t, log[t], "none")
    /\ UNCHANGED result

\* The code of the scoped block raises by itself.
block_raises(t) ==
    /\ pc[t] = "block"
    /\ caller[t] = "generic"
    /\ ExitScope(t, log[t], "BlockError")
    /\ UNCHANGED result

-----------------------------------------------------------------------------
(* packets.py: PacketFormat *)

NUM_PULSE_COUNTERS == 4
NUM_TEMPERATURE_SENSORS == 8

\* The footer every packet carries, 0xFFFE.
FOOTER == 65534

\* The width of a DateTimeField: year, month, day, hour, minute, second.
DateTimeFieldSize == 6

\* The five PacketFormat instances, as their constructor arguments.
Formats ==
    { [name |-> "BIN48-NET-TIME", num_channels |-> 48, has_net_metering |-> TRUE,
       has_time_stamp |-> TRUE],
      [name |-> "BIN48-NET", num_channels |-> 48, has_net_metering |-> TRUE,
       has_time_stamp |-> FALSE],
      [name |-> "BIN48-ABS", num_channels |-> 48, has_net_metering |-> FALSE,
       has_time_stamp |-> FALSE],
      [name |-> "BIN32-NET", num_channels |-> 32, has_net_metering |-> TRUE,
       has_time_stamp |-> FALSE],
      [name |-> "BIN32-ABS", num_channels |-> 32, has_net_metering |-> FALSE,
       has_time_stamp |-> FALSE] }

Field(name, width) == [name |-> name, size |-> width]

\* PacketFormat.__init__: the ordered fields of a format with their sizes.
fields(f) ==
    <<Field("header", 3), Field("voltage", 2),
      Field("absolute_watt_seconds", f.num_channels * 5)>>
    \o (IF f.has_net_metering
        THEN <<Field("polarized_watt_seconds", f.num_channels * 5)>> ELSE <<>>)
    \o <<Field("serial_number", 2), Field("reserved", 1), Field("device_id", 1),
         Field("currents", f.num_channels * 2), Field("seconds", 3),
         Field("pulse_counts", NUM_PULSE_COUNTERS * 3),
         Field("temperatures", NUM_TEMPERATURE_SENSORS * 2)>>
    \o (IF f.num_channels = 32 THEN <<Field("spare_bytes", 2)>> ELSE <<>>)
    \o (IF f.has_time_stamp THEN <<Field("time_stamp", DateTimeFieldSize)>> ELSE <<>>)
    \o <<Field("footer", 2), Field("checksum", 1)>>

\* The sum of sq[lo..hi], by halves.
RECURSIVE SumRange(_, _, _)
SumRange(sq, lo, hi) ==
    IF lo > hi THEN 0
    ELSE IF lo = hi THEN sq[lo]
    ELSE LET mid == (lo + hi) \div 2
         IN  SumRange(sq, lo, mid) + SumRange(sq, mid + 1, hi)

\* PacketFormat.size
size(f) ==
    LET fs == fields(f)
        widths == [i \in 1..Len(fs) |-> fs[i].size]
    IN  SumRange(widths, 1, Len(widths))

\* The offset parse has reached when it reads the field called name.
offset_of(f, name) ==
    LET fs == fields(f)
        k == CHOOSE i \in 1..Len(fs) : fs[i].name = name
        widths == [i \in 1..Len(fs) |-> fs[i].size]
    IN  SumRange(widths, 1, k - 1)

\* fields.hi_to_lo over the width bytes at offset: most significant byte first.
RECURSIVE hi_to_lo(_, _, _)
hi_to_lo(buf, offset, width) ==
    IF width = 0 THEN 0
    ELSE hi_to_lo(buf, offset, width - 1) * 256 + buf[offset + width]

\* fields.lo_to_hi over the width bytes at offset: least significant byte first.
RECURSIVE lo_to_hi(_, _, _)
lo_to_hi(buf, offset, width) ==
    IF width = 0 THEN 0
    ELSE buf[offset + 1] + 256 * lo_to_hi(buf, offset + 1, width - 1)

NoPacket == [packet_format |-> "none", serial_number |-> -1, device_id |-> -1,
             seconds |-> -1]

NotParsed == [outcome |-> "none", message |-> "none", packet |-> NoPacket]

Malformed(message) ==
    [outcome |-> "MalformedPacketException", message |-> message, packet |-> NoPacket]

\* _checksum summing the whole buffer but its last byte and comparing with the
\* last byte, whatever the format's size.
checksum_whole_buffer(buf, sz) ==
    IF Len(buf) = 0 THEN "IndexError"
    ELSE IF SumRange(buf, 1, Len(buf) - 1) % 256 # buf[Len(buf)] THEN "bad checksum"
    ELSE "ok"

\* _checksum(packet, size): the bytes packet[: size - 1] summed mod 256 against
\* packet[size - 1]; the slice stops at the end of a short buffer, the index
\* raises IndexError past it.
checksum(buf, sz) ==
    LET upto == IF sz - 1 < Len(buf) THEN sz - 1 ELSE Len(buf)
        sum == SumRange(buf, 1, upto) % 256
    IN  IF sz > Len(buf) THEN "IndexError"
        ELSE IF sum # buf[sz] THEN "bad checksum"
        ELSE "ok"

\* parse after its length check: _checksum, the fields read in order, the
\* footer check, Packet(**args). Of the decoded fields the model keeps the
\* footer and the scalar integers of the Packet.
parse_checked(f, buf) ==
    LET c == checksum(buf, size(f))
        footer == hi_to_lo(buf, offset_of(f, "footer"), 2)
    IN  IF c = "IndexError"
        THEN [outcome |-> "IndexError", message |-> "none", packet |-> NoPacket]
        ELSE IF c # "ok" THEN Malformed(c)
        ELSE IF footer # FOOTER THEN Malformed("bad footer")
        ELSE [outcome |-> "Packet", message |-> "none",
              packet |-> [packet_format |-> f.name,
                          serial_number |-> hi_to_lo(buf, offset_of(f, "serial_number"), 2),
                          device_id |-> hi_to_lo(buf, offset_of(f, "device_id"), 1),
                          seconds |-> lo_to_hi(buf, offset_of(f, "seconds"), 3)]]

\* parse with the length check left out.
parse_no_length_check(f, buf) == parse_checked(f, buf)

\* parse with the footer check left out.
parse_no_footer_check(f, buf) ==
    IF Len(buf) < size(f) THEN Malformed("Packet too short")
    ELSE LET c == checksum(buf, size(f))
         IN  IF c # "ok" THEN Malformed(c)
             ELSE [outcome |-> "Packet", message |-> "none",
                   packet |-> [packet_format |-> f.name,
                               serial_number |-> hi_to_lo(buf, offset_of(f, "serial_number"), 2),
                               device_id |-> hi_to_lo(buf, offset_of(f, "device_id"), 1),
                               seconds |-> lo_to_hi(buf, offset_of(f, "seconds"), 3)]]

\* PacketFormat.parse
parse(f, buf) ==
    IF Len(buf) < size(f) THEN Malformed("Packet too short")
    ELSE parse_checked(f, buf)

-----------------------------------------------------------------------------
(* Buffers handed to parse *)

\* How many bytes a buffer may have beyond, and short of, the format's size.
MaxExtra == 1
MaxShort == 2

FillBytes == {0, 3}
FooterBytes == {<<255, 254>>, <<254, 255>>, <<255, 255>>, <<0, 254>>}
ExtraBytes == {0, 255}
\* Added to the right checksum byte: 0 keeps it right.
ChecksumErrors == {0, 1, 255}

\* A buffer of n bytes over the layout of f: the body filled with fill, then
\* the two footer bytes, the checksum of what precedes plus err, and bytes
\* extra beyond the format's size.
MakeBuffer(f, n, fill, footer, err, extra) ==
    LET sz == size(f)
        body == [i \in 1..(sz - 1) |->
                    IF i = sz - 2 THEN footer[1]
                    ELSE IF i = sz - 1 THEN footer[2] ELSE fill]
        sum == SumRange(body, 1, sz - 1)
    IN  [i \in 1..n |->
            IF i < sz THEN body[i]
            ELSE IF i = sz THEN (sum + err) % 256
            ELSE extra]

Lengths(f) ==
    {0} \cup {size(f) - k : k \in 1..MaxShort} \cup {size(f) + k : k \in 0..MaxExtra}

Buffers(f) ==
    { MakeBuffer(f, n, fill, footer, err, extra) :
        n \in Lengths(f), fill \in FillBytes, footer \in FooterBytes,
        err \in ChecksumErrors, extra \in ExtraBytes }

ParseInit ==
    /\ format \in Formats
    /\ packet \in Buffers(format)
    /\ parsed = NotParsed

\* format.parse(packet)
parse_packet ==
    /\ parsed = NotParsed
    /\ parsed' = parse(format, packet)
    /\ UNCHANGED <<format, packet>>

-----------------------------------------------------------------------------
(* The shared transport as an observer sees it *)

\* The events task t adds to its log in a step.
NewEvents(t) ==
    LET new == SubSeq(log'[t], Len(log[t]) + 1, Len(log'[t]))
    IN  {new[i] : i \in 1..Len(new)}

InFlight(u) == pc[u] \in {"begin_sleep", "block", "send_sleep"}

\* A step of task t, observed: lastSender follows the send_api_request calls,
\* and overlap records that a transaction began while another was in flight
\* (both), that end_api_request ran while another task stood between its send
\* and its receive (endInside), and that receive_api_response was called when
\* the latest send_api_request was another task's (crossReceive).
Observe(t) ==
    LET new == NewEvents(t)
        others == Tasks \ {t}
    IN  /\ lastSender' = IF new \cap {"send", "send_raised"} # {} THEN t ELSE lastSender
        /\ overlap' =
            [both |-> overlap.both
                \/ ("begin" \in new /\ \E u \in others : InFlight(u)),
             endInside |-> overlap.endInside
                \/ ("end" \in new /\ \E u \in others : pc[u] = "send_sleep"),
             crossReceive |-> overlap.crossReceive
                \/ (new \cap {"receive", "receive_raised"} # {}
                    /\ lastSender \in others)]

\* A step taken without observing the transport.
Quiet(A) == A /\ UNCHANGED <<lastSender, overlap>> /\ UNCHANGED parseVars

\* A step of task t taken under observation.
Observed(t, A) == A /\ Observe(t) /\ UNCHANGED parseVars

-----------------------------------------------------------------------------
(* The specifications *)

\* No packet is parsed while the transactions run.
ParseIdle ==
    /\ format = [name |-> "none", num_channels |-> 0, has_net_metering |-> FALSE,
                 has_time_stamp |-> FALSE]
    /\ packet = <<>>
    /\ parsed = NotParsed

Init ==
    /\ ApiInit
    /\ ParseIdle

Next ==
    \/ \E t \in Tasks : Quiet(call_api_begin(t))
    \/ \E t \in Tasks : Quiet(call_api_begin_raises(t))
    \/ \E t \in Tasks : Quiet(call_api_yield(t))
    \/ \E t \in Tasks : Quiet(cancel_post_begin(t))
    \/ \E t \in Tasks : Quiet(send_request(t))
    \/ \E t \in Tasks : Quiet(send_request_format_raises(t))
    \/ \E t \in Tasks : Quiet(send_request_raises(t))
    \/ \E t \in Tasks : Quiet(receive_response(t))
    \/ \E t \in Tasks : Quiet(receive_response_raises(t))
    \/ \E t \in Tasks : Quiet(cancel_post_send(t))
    \/ \E t \in Tasks : Quiet(block_exit(t))
    \/ \E t \in Tasks : Quiet(block_raises(t))

\* Transactions of cooperative tasks on one transport.
Spec == Init /\ [][Next]_vars

NextShared ==
    \/ \E t \in Tasks : Observed(t, call_api_begin(t))
    \/ \E t \in Tasks : Observed(t, call_api_begin_raises(t))
    \/ \E t \in Tasks : Observed(t, call_api_yield(t))
    \/ \E t \in Tasks : Observed(t, cancel_post_begin(t))
    \/ \E t \in Tasks : Observed(t, send_request(t))
    \/ \E t \in Tasks : Observed(t, send_request_format_raises(t))
    \/ \E t \in Tasks : Observed(t, send_request_raises(t))
    \/ \E t \in Tasks : Observed(t, receive_response(t))
    \/ \E t \in Tasks : Observed(t, receive_response_raises(t))
    \/ \E t \in Tasks : Observed(t, cancel_post_send(t))
    \/ \E t \in Tasks : Observed(t, block_exit(t))
    \/ \E t \in Tasks : Observed(t, block_raises(t))

\* One task running get_serial_number and one running a block of its own on
\* the same transport.
InitShared ==
    /\ Init
    /\ \E t \in Tasks :
        /\ caller[t] = "get_serial_number"
        /\ \A u \in Tasks \ {t} : caller[u] = "generic"

\* The same transactions with the shared transport observed.
SpecShared == InitShared /\ [][NextShared]_vars

\* No transaction runs while packets are parsed.
ApiIdle ==
    /\ ApiInit
    /\ caller = [t \in Tasks |-> "generic"]

InitParse ==
    /\ ApiIdle
    /\ ParseInit

NextParse ==
    parse_packet /\ UNCHANGED apiVars

\* parse applied to one buffer of one format.
SpecParse == InitParse /\ [][NextParse]_vars

-----------------------------------------------------------------------------
(* Readings of a task's log *)

Begun(t) == Count(log[t], "begin") = 1
Ends(t) == Count(log[t], "end")
Invocations(t) == Count(log[t], "call")
\* send_api_request / receive_api_response calls, returned or raised.
SendCalls(t) == Count(log[t], "send") + Count(log[t], "send_raised")
ReceiveCalls(t) == Count(log[t], "receive") + Count(log[t], "receive_raised")
Last(lg) == lg[Len(lg)]

\* What the log says was raised out of the scoped block: the event before "end".
RaisedOut(lg) ==
    IF Len(lg) >= 2 /\ lg[Len(lg) - 1] \in Faults THEN lg[Len(lg) - 1] ELSE "returned"

-----------------------------------------------------------------------------
(* Claims about call_api *)

\* C1: once begin_api_request() has returned, end_api_request() is invoked
\* exactly once on every exit path of the transaction (normal exit, a fault of
\* the block, of the sender, of the response parser), as the last event of the
\* transaction and never before the exit, and the fault that caused the exit is
\* what the caller receives.
C1_EndExactlyOnceOnEveryExit ==
    \A t \in Tasks :
        /\ Ends(t) <= 1
        /\ pc[t] # "done" => Ends(t) = 0
        /\ (pc[t] = "done" /\ Begun(t)) =>
            /\ Ends(t) = 1
            /\ Last(log[t]) = "end"
            /\ outcome[t] = RaisedOut(log[t])

\* C1 witness: get_serial_number left by the parser's ValueError, and another
\* transaction left by a fault of send_api_request, each with its one end.
C1_Witness ==
    \E t, u \in Tasks :
        /\ caller[t] = "get_serial_number" /\ pc[t] = "done"
        /\ outcome[t] = "ValueError" /\ Ends(t) = 1
        /\ pc[u] = "done" /\ outcome[u] = "SendError" /\ Ends(u) = 1

\* C2: the transport events of one transaction keep a fixed order: begin first,
\* the post-begin suspend completed before the sender is yielded, every
\* receive_api_response directly after the completed suspend that follows the
\* send_api_request of the same invocation, every send and receive after the
\* yield, and end_api_request after all of them; a task stands suspended
\* exactly after begin and after each send.
C2_FixedOrder ==
    \A t \in Tasks :
        LET lg == log[t] IN
        /\ \A i \in 1..Len(lg) :
            /\ lg[i] \in {"begin", "begin_raised"} <=> i = 1
            /\ lg[i] = "yield" => (i = 3 /\ lg[2] = "wake" /\ lg[1] = "begin")
            /\ lg[i] \in {"call", "send", "send_raised", "receive", "receive_raised"}
                  => (i > 3 /\ lg[3] = "yield")
            /\ lg[i] \in {"send", "send_raised"} => lg[i - 1] = "call"
            /\ lg[i] \in {"receive", "receive_raised"}
                  => (i > 2 /\ lg[i - 1] = "wake" /\ lg[i - 2] = "send")
            /\ lg[i] = "end" => i = Len(lg)
        /\ pc[t] = "begin_sleep" <=> (lg # <<>> /\ Last(lg) = "begin")
        /\ pc[t] = "send_sleep" <=> (lg # <<>> /\ Last(lg) = "send")

\* C2 witness: a finished transaction that sent, received and ended.
C2_Witness ==
    \E t \in Tasks :
        /\ pc[t] = "done" /\ Ends(t) = 1
        /\ Count(log[t], "receive") >= 1 /\ Count(log[t], "send") >= 1

\* C3: a task cancelled at either suspension point still runs
\* end_api_request() exactly once, as the last event of its transaction; when
\* it was cancelled in the sender's post-send suspend, the request it had sent
\* is never followed by a receive_api_response.
C3_CancelStillEnds ==
    \A t \in Tasks :
        outcome[t] = "CancelledError" =>
            LET lg == log[t] IN
            /\ pc[t] = "done"
            /\ Ends(t) = 1
            /\ Last(lg) = "end"
            /\ lg[Len(lg) - 1] = "CancelledError"
            /\ lg[Len(lg) - 2] \in {"begin", "send"}
            /\ lg[Len(lg) - 2] = "send" => ReceiveCalls(t) < Count(lg, "send")

\* C3 witness: one task cancelled in the post-begin suspend, the other in the
\* post-send suspend.
C3_Witness ==
    \E t, u \in Tasks :
        /\ outcome[t] = "CancelledError" /\ Count(log[t], "yield") = 0
        /\ outcome[u] = "CancelledError" /\ Count(log[u], "send") >= 1

\* C4 as stated: every transaction that ran to its end made exactly one
\* send_api_request and one receive_api_response, however the caller used the
\* sender.
C4_ExactlyOneSendReceive ==
    \A t \in Tasks :
        (pc[t] = "done" /\ outcome[t] = "returned") =>
            (SendCalls(t) = 1 /\ ReceiveCalls(t) = 1)

\* C4 amended: sends and receives happen through sender invocations only, one
\* send_api_request at most and one receive_api_response at most per
\* invocation, a receive only after that invocation's send returned; an
\* invocation that returned made exactly one send and one receive; and a
\* get_serial_number transaction that returned is begin, one send/receive, end.
C4_OneSendReceivePerInvocation ==
    \A t \in Tasks :
        LET lg == log[t] IN
        /\ SendCalls(t) <= Invocations(t)
        /\ ReceiveCalls(t) <= Count(lg, "send")
        /\ Count(lg, "return") <= Count(lg, "receive")
        /\ \A i \in 1..Len(lg) :
            lg[i] = "return" =>
                (i > 4 /\ SubSeq(lg, i - 4, i) = <<"call", "send", "wake", "receive", "return">>)
        /\ \A i \in 1..Len(lg) :
            (lg[i] = "call" /\ i < Len(lg)) =>
                lg[i + 1] \in {"send", "send_raised", "FormatError"}
        /\ (caller[t] = "get_serial_number" /\ outcome[t] = "returned") =>
            lg = <<"begin", "wake", "yield", "call", "send", "wake", "receive",
                   "return", "end">>

\* C4 witness: a transaction that returned after two invocations of the sender,
\* next to a get_serial_number transaction that returned 123456.
C4_Witness ==
    \E t, u \in Tasks :
        /\ outcome[t] = "returned" /\ Count(log[t], "return") = 2
        /\ caller[u] = "get_serial_number" /\ outcome[u] = "returned"
        /\ result[u] = 123456

\* C5 as stated: each of the two suspends lasts for the delay the transport
\* returned.
C5_SuspendsForReturnedDelay ==
    \A t \in Tasks :
        pc[t] \in {"begin_sleep", "send_sleep"} => sleeping[t] = delay[t]

\* C9: call_api does not serialize concurrent callers: no step of a
\* transaction waits for another task's transaction, so a task can begin while
\* another transaction is in flight and can send, receive and end at any point
\* of the other task's transaction.
C9_NoSerialization ==
    \A t \in Tasks :
        /\ pc[t] = "idle" => ENABLED call_api_begin(t)
        /\ pc[t] = "begin_sleep" => ENABLED call_api_yield(t)
        /\ pc[t] = "send_sleep" => ENABLED receive_response(t)
        /\ (pc[t] = "block" /\ caller[t] = "generic") => ENABLED block_exit(t)

\* C9 witness: one run in which two transactions were in flight at once, one
\* task's end_api_request ran while the other stood between its send and its
\* receive, and a task's receive_api_response came after the other task's
\* send_api_request.
C9_Witness ==
    overlap.both /\ overlap.endInside /\ overlap.crossReceive

\* C10: end_api_request() is never called more often than begin_api_request()
\* returned; when begin_api_request() raises, its fault reaches the caller and
\* the transaction holds no yield, send, receive or end.
C10_NoEndWithoutBegin ==
    \A t \in Tasks :
        /\ Ends(t) <= Count(log[t], "begin")
        /\ Count(log[t], "begin_raised") >= 1 =>
            /\ log[t] = <<"begin_raised">>
            /\ pc[t] = "done"
            /\ outcome[t] = "BeginError"

\* C10 witness: one task's begin_api_request() raised while the other task ran
\* a whole transaction.
C10_Witness ==
    \E t, u \in Tasks :
        /\ log[t] = <<"begin_raised">> /\ outcome[t] = "BeginError"
        /\ Ends(u) = 1 /\ outcome[u] = "returned"

-----------------------------------------------------------------------------
(* Claims about PacketFormat.parse *)

\* What the three validations say of the buffer in hand, read off its bytes.
LongEnough == Len(packet) >= size(format)
ChecksumMatches ==
    SumRange(packet, 1, size(format) - 1) % 256 = packet[size(format)]
FooterValue == packet[size(format) - 2] * 256 + packet[size(format) - 1]

\* C6: for each of the five formats, parse of a buffer shorter than the
\* format's size (the empty buffer and size - 1 bytes among them) fails with
\* MalformedPacketException from the length check: neither the checksum nor
\* the footer is looked at and no byte past the buffer's end is read.
C6_ShortBufferMalformed ==
    (parsed # NotParsed /\ ~LongEnough) => parsed = Malformed("Packet too short")

\* C6 witness: BIN32-ABS, 269 bytes wide, handed 268 bytes and refused.
C6_Witness ==
    /\ format.name = "BIN32-ABS"
    /\ Len(packet) = 268
    /\ Len(packet) = size(format) - 1
    /\ parsed = Malformed("Packet too short")

\* C7 as stated: for a buffer at least as long as the format's size, parse
\* fails on the checksum exactly when the sum of all bytes of the buffer but
\* the last, mod 256, differs from the buffer's last byte.
C7_ChecksumOverWholeBuffer ==
    (parsed # NotParsed /\ LongEnough) =>
        (parsed = Malformed("bad checksum")
            <=> SumRange(packet, 1, Len(packet) - 1) % 256 # packet[Len(packet)])

\* C7 amended: for a buffer at least as long as the format's size, parse fails
\* on the checksum exactly when the sum of the first size - 1 bytes, mod 256,
\* differs from the byte at index size - 1 (the last byte when the buffer is
\* exactly size bytes long); bytes beyond the format's size play no part.
C7_ChecksumOverFormatSize ==
    (parsed # NotParsed /\ LongEnough) =>
        /\ parsed = Malformed("bad checksum") <=> ~ChecksumMatches
        /\ Len(packet) = size(format) =>
            (parsed = Malformed("bad checksum")
                <=> SumRange(packet, 1, Len(packet) - 1) % 256 # packet[Len(packet)])

\* C7 witness: a buffer longer than the format's size that passes although its
\* last byte is not the sum of the bytes before it.
C7_Witness ==
    /\ Len(packet) > size(format)
    /\ parsed.outcome = "Packet"
    /\ SumRange(packet, 1, Len(packet) - 1) % 256 # packet[Len(packet)]

\* C8: parse returns a Packet exactly when the buffer is long enough, its
\* checksum matches and its two footer bytes, most significant first, are
\* 0xFFFE; a buffer that passes the length and checksum checks with another
\* footer fails with MalformedPacketException, and every failure is a
\* MalformedPacketException that leaves no Packet.
C8_PacketIffAllValid ==
    parsed # NotParsed =>
        /\ parsed.outcome = "Packet"
            <=> (LongEnough /\ ChecksumMatches /\ FooterValue = 65534)
        /\ parsed.outcome = "Packet" => parsed.packet.packet_format = format.name
        /\ parsed.outcome # "Packet" =>
            (parsed.outcome = "MalformedPacketException" /\ parsed.packet = NoPacket)
        /\ (LongEnough /\ ChecksumMatches /\ FooterValue # 65534)
            => parsed = Malformed("bad footer")

\* C8 witness: a buffer of the right length and checksum whose footer bytes are
\* 0xFE 0xFF, refused for its footer.
C8_Witness ==
    /\ LongEnough /\ ChecksumMatches
    /\ FooterValue = 65279
    /\ parsed = Malformed("bad footer")

====
